---------------------------- MODULE Spec2Model ----------------------------
(***************************************************************************)
(* Model of examples/ai-agent-demo/agent.py: parse_addr, send and main.    *)
(*                                                                         *)
(* Text and bytes are sequences of one-character strings, so that prefix   *)
(* tests, splitting and integer conversion are computed character by       *)
(* character, as the Python code computes them.                            *)
(***************************************************************************)
EXTENDS Integers, Sequences, FiniteSets, TLC

(***************************************************************************)
(* Bounds of the model.                                                    *)
(***************************************************************************)
\* longest host part drawn for an address string
MaxHostLen == 2
\* longest port text drawn for an address string
MaxPortLen == 5
\* most bytes the server has sent that the client has not yet consumed
MaxStream == 3
\* most calls the unscripted caller makes on one client
MaxCalls == 2
\* bytes the peer may have in flight to the client where termination is checked
LiveStream == 2

(***************************************************************************)
(* Python str helpers used by parse_addr.                                  *)
(***************************************************************************)
\* str.startswith(p)
StartsWith(s, p) ==
    /\ Len(s) >= Len(p)
    /\ SubSeq(s, 1, Len(p)) = p

\* s[n:]
DropFirst(s, n) == SubSeq(s, n + 1, Len(s))

\* c in s
Contains(s, c) == \E i \in 1..Len(s) : s[i] = c

\* index of the first / the last occurrence of c in s (c occurs in s)
\* how many times c occurs in s
Count(s, c) == Cardinality({i \in 1..Len(s) : s[i] = c})

FirstIndex(s, c) == CHOOSE i \in 1..Len(s) : s[i] = c /\ \A j \in 1..(i - 1) : s[j] # c
LastIndex(s, c) == CHOOSE i \in 1..Len(s) : s[i] = c /\ \A j \in (i + 1)..Len(s) : s[j] # c

\* s.split(":", 1): cut at the FIRST colon (the mutation of rsplit)
SplitFirstColon(s) ==
    LET i == FirstIndex(s, ":")
    IN  <<SubSeq(s, 1, i - 1), SubSeq(s, i + 1, Len(s))>>

\* s.rsplit(":", 1) for s containing ":": cut at the LAST colon
RSplitColon(s) ==
    LET i == LastIndex(s, ":")
    IN  <<SubSeq(s, 1, i - 1), SubSeq(s, i + 1, Len(s))>>

(***************************************************************************)
(* Python int(text): surrounding whitespace is stripped, one sign is       *)
(* allowed, digits may be grouped by single underscores.  Anything else    *)
(* raises ValueError.  The value is unbounded.                             *)
(***************************************************************************)
Digits == {"0", "1", "2", "3", "4", "5", "6", "7", "8", "9"}

DigitVal(c) ==
    CASE c = "0" -> 0 [] c = "1" -> 1 [] c = "2" -> 2 [] c = "3" -> 3
      [] c = "4" -> 4 [] c = "5" -> 5 [] c = "6" -> 6 [] c = "7" -> 7
      [] c = "8" -> 8 [] c = "9" -> 9

IsSpace(c) == c \in {" ", "\n", "\t", "\r"}

RECURSIVE LStrip(_)
LStrip(s) == IF s # <<>> /\ IsSpace(Head(s)) THEN LStrip(Tail(s)) ELSE s

RECURSIVE RStrip(_)
RStrip(s) ==
    IF s # <<>> /\ IsSpace(s[Len(s)]) THEN RStrip(SubSeq(s, 1, Len(s) - 1)) ELSE s

Strip(s) == RStrip(LStrip(s))

\* the text after the optional sign is well formed: digits, single "_" between digits
IntBodyOK(b) ==
    /\ b # <<>>
    /\ \A i \in 1..Len(b) : b[i] \in Digits \/ b[i] = "_"
    /\ b[1] \in Digits
    /\ b[Len(b)] \in Digits
    /\ \A i \in 1..(Len(b) - 1) : ~(b[i] = "_" /\ b[i + 1] = "_")

RECURSIVE DecimalValue(_)
DecimalValue(b) ==
    IF b = <<>> THEN 0
    ELSE LET c == b[Len(b)]
             rest == SubSeq(b, 1, Len(b) - 1)
         IN  IF c = "_" THEN DecimalValue(rest)
             ELSE 10 * DecimalValue(rest) + DigitVal(c)

HasSign(t) == t # <<>> /\ Head(t) \in {"+", "-"}

IntBody(s) == LET t == Strip(s) IN IF HasSign(t) THEN Tail(t) ELSE t

\* int(s) does not raise
IntOK(s) == IntBodyOK(IntBody(s))

\* int(s), for IntOK(s)
IntValue(s) ==
    LET t == Strip(s)
        v == DecimalValue(IntBody(s))
    IN  IF HasSign(t) /\ Head(t) = "-" THEN 0 - v ELSE v

(***************************************************************************)
(* parse_addr.  The three ValueErrors differ only in their message; err    *)
(* names the message.                                                      *)
(***************************************************************************)
TcpPrefix == <<"t", "c", "p", ":">>
UnixPrefix == <<"u", "n", "i", "x", ":">>

ErrUnsupported == "unix sockets are not supported in this demo"
ErrExpectedHostPort == "expected host:port"
ErrInvalidLiteral == "invalid literal for int() with base 10"

Raised(e) == [ok |-> FALSE, host |-> <<>>, port |-> 0, err |-> e]
Address(h, p) == [ok |-> TRUE, host |-> h, port |-> p, err |-> ""]

\* line 10-11: one leading "tcp:" is stripped
StripTcp(raw) == IF StartsWith(raw, TcpPrefix) THEN DropFirst(raw, 4) ELSE raw

\* parse_addr without the check of line 12-13 (the mutation of parse_addr)
parse_addr_no_unix_check(raw) ==
    LET r == StripTcp(raw)
    IN  IF ~Contains(r, ":") THEN Raised(ErrExpectedHostPort)
        ELSE LET hp == RSplitColon(r)
             IN  IF IntOK(hp[2]) THEN Address(hp[1], IntValue(hp[2]))
                 ELSE Raised(ErrInvalidLiteral)

parse_addr(raw) ==
    LET r == StripTcp(raw)
    IN  IF StartsWith(r, UnixPrefix) THEN Raised(ErrUnsupported)
        ELSE IF ~Contains(r, ":") THEN Raised(ErrExpectedHostPort)
        ELSE LET hp == RSplitColon(r)
             IN  IF IntOK(hp[2]) THEN Address(hp[1], IntValue(hp[2]))
                 ELSE Raised(ErrInvalidLiteral)

(***************************************************************************)
(* Address strings drawn for the check of parse_addr: a transport-like     *)
(* prefix, a host part and a port text, concatenated into one flat string. *)
(***************************************************************************)
Strs(alphabet, n) == UNION {[1..k -> alphabet] : k \in 0..n}

Prefixes ==
    { <<>>, TcpPrefix, UnixPrefix, TcpPrefix \o UnixPrefix, TcpPrefix \o TcpPrefix,
      <<"u", "n", "i", "x">>, <<"t", "c", "p">> }
HostChars == {"a", ":"}
PortChars == {"0", "7", "-", " "}

(***************************************************************************)
(* JSON.  A JSON value is a record with a tag t and one payload field per  *)
(* tag; a message (a Python dict, which keeps insertion order) is a        *)
(* sequence of <<key, value>> pairs, and ObjV(items) is that dict as a     *)
(* value.  Objects here hold scalars only.                                 *)
(***************************************************************************)
IntV(n) == [t |-> "int", i |-> n, s |-> <<>>, b |-> FALSE, o |-> <<>>]
StrV(cs) == [t |-> "str", i |-> 0, s |-> cs, b |-> FALSE, o |-> <<>>]
BoolV(x) == [t |-> "bool", i |-> 0, s |-> <<>>, b |-> x, o |-> <<>>]
ObjV(items) == [t |-> "obj", i |-> 0, s |-> <<>>, b |-> FALSE, o |-> items]
\* the floats nan, inf and -inf, named by their repr
FloatV(name) == [t |-> "float", i |-> 0, s |-> name, b |-> FALSE, o |-> <<>>]

DigitChar(d) ==
    CASE d = 0 -> "0" [] d = 1 -> "1" [] d = 2 -> "2" [] d = 3 -> "3" [] d = 4 -> "4"
      [] d = 5 -> "5" [] d = 6 -> "6" [] d = 7 -> "7" [] d = 8 -> "8" [] d = 9 -> "9"

RECURSIVE NatDigits(_)
NatDigits(n) == IF n < 10 THEN <<DigitChar(n)>> ELSE NatDigits(n \div 10) \o <<DigitChar(n % 10)>>

\* json.dumps of an int
DumpsInt(n) == IF n < 0 THEN <<"-">> \o NatDigits(0 - n) ELSE NatDigits(n)

\* an encoder that leaves a newline inside a str as it is (the mutation of DumpsChar)
DumpsCharRaw(c) ==
    CASE c = "\"" -> <<"\\", "\"">>
      [] c = "\\" -> <<"\\", "\\">>
      [] OTHER -> <<c>>

\* json.dumps of one character of a str: quote, backslash and newline are escaped
DumpsChar(c) ==
    CASE c = "\"" -> <<"\\", "\"">>
      [] c = "\\" -> <<"\\", "\\">>
      [] c = "\n" -> <<"\\", "n">>
      [] OTHER -> <<c>>

RECURSIVE DumpsChars(_)
DumpsChars(cs) == IF cs = <<>> THEN <<>> ELSE DumpsChar(Head(cs)) \o DumpsChars(Tail(cs))

\* json.dumps of a str
DumpsStr(cs) == <<"\"">> \o DumpsChars(cs) \o <<"\"">>

DumpsValue(v) ==
    CASE v.t = "int" -> DumpsInt(v.i)
      [] v.t = "str" -> DumpsStr(v.s)
      [] v.t = "bool" -> IF v.b THEN <<"t", "r", "u", "e">> ELSE <<"f", "a", "l", "s", "e">>

RECURSIVE DumpsItems(_)
DumpsItems(items) ==
    IF items = <<>> THEN <<>>
    ELSE DumpsStr(items[1][1]) \o <<":", " ">> \o DumpsValue(items[1][2])
         \o (IF Len(items) > 1 THEN <<",", " ">> ELSE <<>>) \o DumpsItems(Tail(items))

\* json.dumps(msg) with the default separators ", " and ": "
json_dumps(m) == <<"{">> \o DumpsItems(m) \o <<"}">>

\* json.dumps of any value of the model
DumpsAny(v) == IF v.t = "obj" THEN json_dumps(v.o) ELSE DumpsValue(v)

\* line 21: the frame of a message
Payload(m) == json_dumps(m) \o <<"\n">>

(***************************************************************************)
(* json.loads, for integers, strings, true/false and objects of those.     *)
(* Each parser takes the text at its start and gives [ok, val, rest]:      *)
(* whether a value starts there, the value, and the text after it.         *)
(* NaN, Infinity and -Infinity are taken too, as json.loads takes them.     *)
(* Not covered, because no text of the model holds them: fractions and     *)
(* exponents, null, arrays, nested objects, \b \f \u escapes and repeated  *)
(* keys.                                                                   *)
(***************************************************************************)
NoParse == [ok |-> FALSE, val |-> IntV(0), rest |-> <<>>]
Parsed(v, r) == [ok |-> TRUE, val |-> v, rest |-> r]

\* the longest run of digits s starts with
RECURSIVE DigitRun(_)
DigitRun(s) ==
    IF s # <<>> /\ Head(s) \in Digits THEN <<Head(s)>> \o DigitRun(Tail(s)) ELSE <<>>

\* the value of an integer literal: "-"? then "0" alone or digits not starting "0"
JsonIntValue(t) ==
    IF Head(t) = "-" THEN 0 - DecimalValue(Tail(t)) ELSE DecimalValue(t)

\* the scanner stops after a leading "0"; otherwise it takes the whole digit run
ParseInt(s) ==
    LET neg == s # <<>> /\ Head(s) = "-"
        b == IF neg THEN Tail(s) ELSE s
        run == IF b # <<>> /\ Head(b) = "0" THEN <<"0">> ELSE DigitRun(b)
        lit == (IF neg THEN <<"-">> ELSE <<>>) \o run
    IN  IF run = <<>> THEN NoParse
        ELSE Parsed(IntV(JsonIntValue(lit)), DropFirst(s, Len(lit)))

\* the character an escape \c stands for; "" when the escape is not one of these
Unescaped(c) ==
    CASE c = "\"" -> "\""
      [] c = "\\" -> "\\"
      [] c = "/" -> "/"
      [] c = "n" -> "\n"
      [] c = "t" -> "\t"
      [] c = "r" -> "\r"
      [] OTHER -> ""

\* the characters of a string literal after its opening quote, acc what was read
RECURSIVE ScanString(_, _)
ScanString(s, acc) ==
    IF s = <<>> THEN NoParse
    ELSE IF Head(s) = "\"" THEN Parsed(StrV(acc), Tail(s))
    ELSE IF Head(s) = "\\"
         THEN IF Len(s) < 2 \/ Unescaped(s[2]) = "" THEN NoParse
              ELSE ScanString(DropFirst(s, 2), Append(acc, Unescaped(s[2])))
    ELSE IF Head(s) \in {"\n", "\t", "\r"} THEN NoParse
    ELSE ScanString(Tail(s), Append(acc, Head(s)))

ParseString(s) ==
    IF s # <<>> /\ Head(s) = "\"" THEN ScanString(Tail(s), <<>>) ELSE NoParse

TrueText == <<"t", "r", "u", "e">>
FalseText == <<"f", "a", "l", "s", "e">>
\* the constants json.loads takes besides JSON (parse_constant is not set)
NaNText == <<"N", "a", "N">>
InfinityText == <<"I", "n", "f", "i", "n", "i", "t", "y">>

ParseScalar(s) ==
    IF s = <<>> THEN NoParse
    ELSE IF Head(s) = "\"" THEN ParseString(s)
    ELSE IF StartsWith(s, TrueText) THEN Parsed(BoolV(TRUE), DropFirst(s, 4))
    ELSE IF StartsWith(s, FalseText) THEN Parsed(BoolV(FALSE), DropFirst(s, 5))
    ELSE IF StartsWith(s, NaNText) THEN Parsed(FloatV(<<"n", "a", "n">>), DropFirst(s, 3))
    ELSE IF StartsWith(s, InfinityText) THEN Parsed(FloatV(<<"i", "n", "f">>), DropFirst(s, 8))
    ELSE IF StartsWith(s, <<"-">> \o InfinityText)
         THEN Parsed(FloatV(<<"-", "i", "n", "f">>), DropFirst(s, 9))
    ELSE ParseInt(s)

\* the members of an object after "{" or ",": key ":" value, then "," or "}"
RECURSIVE ParseMembers(_, _)
ParseMembers(s, acc) ==
    LET key == ParseString(LStrip(s))
        afterKey == LStrip(key.rest)
        val == ParseScalar(LStrip(Tail(afterKey)))
        afterVal == LStrip(val.rest)
        items == Append(acc, <<key.val.s, val.val>>)
    IN  IF ~key.ok \/ afterKey = <<>> \/ Head(afterKey) # ":" THEN NoParse
        ELSE IF ~val.ok \/ afterVal = <<>> THEN NoParse
        ELSE IF Head(afterVal) = "}" THEN Parsed(ObjV(items), Tail(afterVal))
        ELSE IF Head(afterVal) = "," THEN ParseMembers(Tail(afterVal), items)
        ELSE NoParse

ParseObject(s) ==
    LET inner == LStrip(Tail(s))
    IN  IF inner # <<>> /\ Head(inner) = "}" THEN Parsed(ObjV(<<>>), Tail(inner))
        ELSE ParseMembers(inner, <<>>)

ParseValue(s) ==
    IF s # <<>> /\ Head(s) = "{" THEN ParseObject(s) ELSE ParseScalar(s)

\* json.loads(text): one value, with only whitespace around it
json_loads(text) ==
    LET p == ParseValue(LStrip(text))
    IN  IF p.ok /\ LStrip(p.rest) = <<>> THEN [ok |-> TRUE, val |-> p.val]
        ELSE [ok |-> FALSE, val |-> IntV(0)]

(***************************************************************************)
(* The scripted requests of main, lines 41-49.                             *)
(***************************************************************************)
K_id == <<"i", "d">>
K_type == <<"t", "y", "p", "e">>
K_text == <<"t", "e", "x", "t">>
K_key == <<"k", "e", "y">>
K_include_text == <<"i", "n", "c", "l", "u", "d", "e", "_", "t", "e", "x", "t">>
S_hello == <<"h", "e", "l", "l", "o">>
S_snapshot == <<"s", "n", "a", "p", "s", "h", "o", "t">>
S_enter == <<"e", "n", "t", "e", "r">>
S_hello_from_agent == S_hello \o <<" ", "f", "r", "o", "m", " ", "a", "g", "e", "n", "t">>

Script ==
    << << <<K_id, IntV(1)>>, <<K_type, StrV(S_hello)>> >>,
       << <<K_id, IntV(2)>>, <<K_type, StrV(S_snapshot)>>, <<K_include_text, BoolV(TRUE)>> >>,
       << <<K_id, IntV(3)>>, <<K_type, StrV(K_text)>>, <<K_text, StrV(S_hello_from_agent)>> >>,
       << <<K_id, IntV(4)>>, <<K_type, StrV(K_key)>>, <<K_key, StrV(S_enter)>> >>,
       << <<K_id, IntV(5)>>, <<K_type, StrV(S_snapshot)>>, <<K_include_text, BoolV(TRUE)>> >> >>

NumCalls == Len(Script)

\* the id field of a message
MsgId(m) == m[1][2].i

(***************************************************************************)
(* The peer.  It may send any byte at any time and may close.              *)
(***************************************************************************)
ServerBytes == {"1", "x", "\n"}

\* address strings configured for the driver
DriverAddrs ==
    { TcpPrefix \o <<"a", ":", "7">>, UnixPrefix \o <<"a", ":", "7">>,
      <<"a", "7">>, <<"a", ":", "x">> }

VARIABLES
    raw,         \* the configured address string (FLUFFYUI_AGENT_ADDR)
    addr,        \* what parse_addr gave: an Address or a raised ValueError
    dpc,         \* where main is
    k,           \* how many calls of send the caller has begun
    spc,         \* where send is: idle, write, flush, readline, check
    msg,         \* the msg argument of the running send
    wbuf,        \* bytes held in sock_file's write buffer
    c2s,         \* every byte the client handed to the transport, in order
    s2c,         \* bytes the peer sent that no readline has consumed yet
    srvSent,     \* every byte the peer sent, in order
    peerClosed,  \* the peer closed its end of the stream
    broken,      \* a transport write failed; the descriptor stays in error
    line,        \* what the last readline returned
    exc,         \* the exception the last send raised, "none" if it returned
    log,         \* the outcome of every finished send, in call order
    returned,    \* the values the successful sends returned, in order
    nflushed,    \* frames handed to the transport
    nread,       \* readline calls that returned
    connects,    \* create_connection attempts
    opens,       \* create_connection calls that returned a socket
    fdOpen,      \* the descriptor of the connection is open
    fileOpen,    \* the makefile object f is alive and holds the descriptor
    closeCalls,  \* calls of sock.close()
    releases,    \* times the descriptor was really closed
    status,      \* how main ended: "running", "0", "1" or "exception"
    other        \* a second caller sharing f: its own place in send and results

vars ==
    <<raw, addr, dpc, k, spc, msg, wbuf, c2s, s2c, srvSent, peerClosed, broken, line, exc,
      log, returned, nflushed, nread, connects, opens, fdOpen, fileOpen, closeCalls,
      releases, status, other>>

parseVars == <<raw, addr>>
callerVars == <<dpc, k, status, other>>
sendVars == <<spc, msg, wbuf, line, exc, log, returned, nflushed, nread>>
wireVars == <<c2s, s2c, srvSent, peerClosed, broken>>
sockVars == <<connects, opens, fdOpen, fileOpen, closeCalls, releases>>

NoAddr == [ok |-> FALSE, host |-> <<>>, port |-> 0, err |-> "not parsed"]
NoMsg == <<>>

\* a caller that has not called send
IdleCaller == [spc |-> "idle", msg |-> NoMsg, line |-> <<>>, log |-> <<>>, returned |-> <<>>]

\* the state before main runs, but for raw
InitRest ==
    /\ addr = NoAddr
    /\ dpc = "parse"
    /\ k = 0
    /\ spc = "idle"
    /\ msg = NoMsg
    /\ wbuf = <<>>
    /\ c2s = <<>>
    /\ s2c = <<>>
    /\ srvSent = <<>>
    /\ other = IdleCaller
    /\ peerClosed = FALSE
    /\ broken = FALSE
    /\ line = <<>>
    /\ exc = "none"
    /\ log = <<>>
    /\ returned = <<>>
    /\ nflushed = 0
    /\ nread = 0
    /\ connects = 0
    /\ opens = 0
    /\ fdOpen = FALSE
    /\ fileOpen = FALSE
    /\ closeCalls = 0
    /\ releases = 0
    /\ status = "running"

(***************************************************************************)
(* send(sock_file, msg), lines 20-27, one action per blocking step.        *)
(***************************************************************************)
\* line 21-22: the frame goes into the write buffer
SendWrite ==
    /\ spc = "write"
    /\ wbuf' = wbuf \o Payload(msg)
    /\ spc' = "flush"
    /\ UNCHANGED <<msg, line, exc, log, returned, nflushed, nread>>
    /\ UNCHANGED <<parseVars, callerVars, wireVars, sockVars>>

\* what the transport may answer to a write: after the peer closed, the write is
\* either still accepted or fails (EPIPE / ECONNRESET), and then fails for good
FlushOutcomes ==
    IF broken THEN {"fail"} ELSE IF peerClosed THEN {"sent", "fail"} ELSE {"sent"}

\* send going on to readline with the frame still in the buffer
\* (the mutation of SendFlush)
SendFlushSkipped ==
    /\ spc = "flush"
    /\ spc' = "readline"
    /\ UNCHANGED <<msg, wbuf, line, exc, log, returned, nflushed, nread>>
    /\ UNCHANGED <<parseVars, callerVars, wireVars, sockVars>>

\* line 23: flush hands the buffered bytes to the transport, or raises OSError
SendFlush ==
    /\ spc = "flush"
    /\ \E o \in FlushOutcomes :
          IF o = "sent"
          THEN /\ c2s' = c2s \o wbuf
               /\ wbuf' = <<>>
               /\ nflushed' = nflushed + 1
               /\ spc' = "readline"
               /\ UNCHANGED <<broken, exc, log>>
          ELSE /\ broken' = TRUE
               /\ exc' = "OSError"
               /\ log' = Append(log, "OSError")
               /\ spc' = "idle"
               /\ UNCHANGED <<c2s, wbuf, nflushed>>
    /\ UNCHANGED <<msg, line, returned, nread, s2c, srvSent, peerClosed>>
    /\ UNCHANGED <<parseVars, callerVars, sockVars>>

\* a readline that waits for a "\n" and does not notice the end of the stream
\* (the mutation of LineAvailable)
LineAvailableNoEof == Contains(s2c, "\n")

\* readline can return: a whole line is there, or the stream has ended
LineAvailable == Contains(s2c, "\n") \/ peerClosed

\* a readline that returns all that has arrived (the mutation of ReadlineResult)
ReadlineEverything == s2c

\* the bytes readline returns: through the first "\n", or all that is left at the end
ReadlineResult ==
    IF Contains(s2c, "\n") THEN SubSeq(s2c, 1, FirstIndex(s2c, "\n")) ELSE s2c

\* send returning once the frame is flushed, without reading the reply
\* (the mutation of SendReadline)
SendReadlineSkipped ==
    /\ spc = "readline"
    /\ spc' = "idle"
    /\ log' = Append(log, "ok")
    /\ UNCHANGED <<msg, wbuf, line, exc, returned, nflushed, nread>>
    /\ UNCHANGED <<parseVars, callerVars, wireVars, sockVars>>

\* a readline that returns the first line and throws away whatever else has arrived
\* (the mutation of SendReadline)
SendReadlineDrain ==
    /\ spc = "readline"
    /\ LineAvailable
    /\ line' = ReadlineResult
    /\ s2c' = <<>>
    /\ nread' = nread + 1
    /\ spc' = "check"
    /\ UNCHANGED <<msg, wbuf, exc, log, returned, nflushed, c2s, srvSent, peerClosed, broken>>
    /\ UNCHANGED <<parseVars, callerVars, sockVars>>

\* line 24: blocks until LineAvailable, then consumes what it returns
SendReadline ==
    /\ spc = "readline"
    /\ LineAvailable
    /\ line' = ReadlineResult
    /\ s2c' = DropFirst(s2c, Len(ReadlineResult))
    /\ nread' = nread + 1
    /\ spc' = "check"
    /\ UNCHANGED <<msg, wbuf, exc, log, returned, nflushed, c2s, srvSent, peerClosed, broken>>
    /\ UNCHANGED <<parseVars, callerVars, sockVars>>

\* line 25-27: how send ends on the bytes readline returned
SendOutcome(l) ==
    IF l = <<>> THEN "RuntimeError"
    ELSE IF json_loads(l).ok THEN "ok"
    ELSE "JSONDecodeError"

\* a send that returns the id of its own request whatever line it read
\* (the mutation of SendCheck)
SendCheckOwnId ==
    /\ spc = "check"
    /\ spc' = "idle"
    /\ log' = Append(log, SendOutcome(line))
    /\ exc' = IF SendOutcome(line) = "ok" THEN "none" ELSE SendOutcome(line)
    /\ returned' = IF SendOutcome(line) = "ok" THEN Append(returned, IntV(MsgId(msg)))
                   ELSE returned
    /\ UNCHANGED <<msg, wbuf, line, nflushed, nread>>
    /\ UNCHANGED <<parseVars, callerVars, wireVars, sockVars>>

\* line 25-27: empty means closed; otherwise the line is decoded and returned
SendCheck ==
    /\ spc = "check"
    /\ spc' = "idle"
    /\ log' = Append(log, SendOutcome(line))
    /\ exc' = IF SendOutcome(line) = "ok" THEN "none" ELSE SendOutcome(line)
    /\ returned' = IF SendOutcome(line) = "ok" THEN Append(returned, json_loads(line).val)
                   ELSE returned
    /\ UNCHANGED <<msg, wbuf, line, nflushed, nread>>
    /\ UNCHANGED <<parseVars, callerVars, wireVars, sockVars>>

(***************************************************************************)
(* The peer's steps.                                                       *)
(***************************************************************************)
Connected == connects > 0 /\ fdOpen

ServerSend(b) ==
    /\ Connected
    /\ ~peerClosed
    /\ Len(s2c) < MaxStream
    /\ s2c' = Append(s2c, b)
    /\ srvSent' = Append(srvSent, b)
    /\ UNCHANGED <<c2s, peerClosed, broken>>
    /\ UNCHANGED <<parseVars, callerVars, sendVars, sockVars>>

ServerClose ==
    /\ Connected
    /\ ~peerClosed
    /\ peerClosed' = TRUE
    /\ UNCHANGED <<c2s, s2c, srvSent, broken>>
    /\ UNCHANGED <<parseVars, callerVars, sendVars, sockVars>>

(***************************************************************************)
(* main, lines 30-50.                                                      *)
(***************************************************************************)
\* main going on to connect although parse_addr raised (the mutation of MainParse)
MainParseIgnoringError ==
    /\ dpc = "parse"
    /\ addr' = parse_addr(raw)
    /\ dpc' = "connect"
    /\ UNCHANGED <<raw, k, status, other>>
    /\ UNCHANGED <<sendVars, wireVars, sockVars>>

\* line 31-36: parse the address; a ValueError ends main with 1
MainParse ==
    /\ dpc = "parse"
    /\ addr' = parse_addr(raw)
    /\ IF parse_addr(raw).ok
       THEN dpc' = "connect" /\ status' = status
       ELSE dpc' = "done" /\ status' = "1"
    /\ UNCHANGED <<raw, k, other>>
    /\ UNCHANGED <<sendVars, wireVars, sockVars>>

\* main going on to makefile whether or not the connect succeeded
\* (the mutation of MainConnect)
MainConnectUnchecked ==
    /\ dpc = "connect"
    /\ connects' = connects + 1
    /\ \E connected \in BOOLEAN :
          /\ fdOpen' = connected
          /\ opens' = IF connected THEN opens + 1 ELSE opens
    /\ dpc' = "makefile"
    /\ UNCHANGED <<k, status, other, sendVars>>
    /\ UNCHANGED <<fileOpen, closeCalls, releases>>
    /\ UNCHANGED <<parseVars, wireVars>>

\* line 38: create_connection connects or raises OSError, which ends main
MainConnect ==
    /\ dpc = "connect"
    /\ connects' = connects + 1
    /\ \E connected \in BOOLEAN :
          IF connected
          THEN /\ fdOpen' = TRUE
               /\ opens' = opens + 1
               /\ dpc' = "makefile"
               /\ UNCHANGED <<exc, status>>
          ELSE /\ fdOpen' = FALSE
               /\ opens' = opens
               /\ exc' = "OSError"
               /\ dpc' = "done"
               /\ status' = "exception"
    /\ UNCHANGED <<k, other, spc, msg, wbuf, line, log, returned, nflushed, nread>>
    /\ UNCHANGED <<fileOpen, closeCalls, releases>>
    /\ UNCHANGED <<parseVars, wireVars>>

\* line 39-40: the with block is entered and f wraps the socket
MainMakefile ==
    /\ dpc = "makefile"
    /\ fileOpen' = TRUE
    /\ dpc' = "call"
    /\ UNCHANGED <<k, status, other, connects, opens, fdOpen, closeCalls, releases>>
    /\ UNCHANGED <<parseVars, sendVars, wireVars>>

\* main may go on to its next statement: no send is running
SendDone == spc = "idle"

\* main sending its first request again and again (the mutation of MainCall)
MainCallRepeating ==
    /\ dpc = "call"
    /\ SendDone
    /\ exc = "none"
    /\ k < NumCalls
    /\ k' = k + 1
    /\ msg' = Script[1]
    /\ spc' = "write"
    /\ UNCHANGED <<dpc, status, other, wbuf, line, exc, log, returned, nflushed, nread>>
    /\ UNCHANGED <<parseVars, wireVars, sockVars>>

\* main going on to its next send although the one before raised
\* (the mutation of MainCall)
MainCallRegardless ==
    /\ dpc = "call"
    /\ SendDone
    /\ k < NumCalls
    /\ k' = k + 1
    /\ msg' = Script[k + 1]
    /\ spc' = "write"
    /\ UNCHANGED <<dpc, status, other, wbuf, line, exc, log, returned, nflushed, nread>>
    /\ UNCHANGED <<parseVars, wireVars, sockVars>>

\* line 41-49: the next scripted send begins, once the one before has returned
MainCall ==
    /\ dpc = "call"
    /\ SendDone
    /\ exc = "none"
    /\ k < NumCalls
    /\ k' = k + 1
    /\ msg' = Script[k + 1]
    /\ spc' = "write"
    /\ UNCHANGED <<dpc, status, other, wbuf, line, exc, log, returned, nflushed, nread>>
    /\ UNCHANGED <<parseVars, wireVars, sockVars>>

\* sock.close(): the descriptor is closed now unless a makefile object still holds it
SockClose ==
    /\ closeCalls' = closeCalls + 1
    /\ fdOpen' = (fdOpen /\ fileOpen)
    /\ releases' = IF fdOpen /\ ~fileOpen THEN releases + 1 ELSE releases
    /\ UNCHANGED <<connects, opens, fileOpen>>

\* the socket closed after the last send only, not when a send raised
\* (the mutation of MainWithExit: close() at the end of the block instead of with)
MainExitWithoutWith ==
    /\ dpc = "call"
    /\ SendDone
    /\ exc # "none" \/ k = NumCalls
    /\ IF exc = "none" THEN SockClose ELSE UNCHANGED sockVars
    /\ dpc' = "exit"
    /\ UNCHANGED <<k, status, other>>
    /\ UNCHANGED <<parseVars, sendVars, wireVars>>

\* line 39, 49-50: the with block is left, after the last send or by an exception
MainWithExit ==
    /\ dpc = "call"
    /\ SendDone
    /\ exc # "none" \/ k = NumCalls
    /\ SockClose
    /\ dpc' = "exit"
    /\ UNCHANGED <<k, status, other>>
    /\ UNCHANGED <<parseVars, sendVars, wireVars>>

\* line 50, 54: main ends; its frame goes and with it f, the last holder of the
\* descriptor of an already closed socket
MainReturn ==
    /\ dpc = "exit"
    /\ fileOpen' = FALSE
    /\ fdOpen' = FALSE
    /\ releases' = IF fdOpen THEN releases + 1 ELSE releases
    /\ status' = IF exc = "none" THEN "0" ELSE "exception"
    /\ dpc' = "done"
    /\ UNCHANGED <<k, other, connects, opens, closeCalls>>
    /\ UNCHANGED <<parseVars, sendVars, wireVars>>

Init ==
    /\ raw \in DriverAddrs
    /\ InitRest

Next ==
    \/ MainParse
    \/ MainConnect
    \/ MainMakefile
    \/ MainCall
    \/ MainWithExit
    \/ MainReturn
    \/ SendWrite
    \/ SendFlush
    \/ SendReadline
    \/ SendCheck
    \/ \E b \in ServerBytes : ServerSend(b)
    \/ ServerClose

Spec == Init /\ [][Next]_vars

\* the program keeps running: a statement of main or of send that can run does run
ClientStep ==
    \/ MainParse
    \/ MainConnect
    \/ MainMakefile
    \/ MainCall
    \/ MainWithExit
    \/ MainReturn
    \/ SendWrite
    \/ SendFlush
    \/ SendReadline
    \/ SendCheck

\* for termination the bytes of a reply matter only as: ends the line, or does not
LiveBytes == {"1", "\n"}

ServerSendLive(b) ==
    /\ Connected
    /\ ~peerClosed
    /\ Len(s2c) < LiveStream
    /\ s2c' = Append(s2c, b)
    /\ srvSent' = Append(srvSent, b)
    /\ UNCHANGED <<c2s, peerClosed, broken>>
    /\ UNCHANGED <<parseVars, callerVars, sendVars, sockVars>>

\* the peer answers: while send waits in readline and no complete line has arrived, the
\* peer completes a line or closes
PeerAnswers ==
    /\ spc = "readline"
    /\ ~Contains(s2c, "\n")
    /\ (ServerSendLive("\n") \/ ServerClose)

NextLive ==
    \/ ClientStep
    \/ \E b \in LiveBytes : ServerSendLive(b)
    \/ ServerClose

SpecLive == Init /\ [][NextLive]_vars /\ WF_vars(ClientStep) /\ WF_vars(PeerAnswers)

(***************************************************************************)
(* One client used by a caller that is not the script of main: it calls    *)
(* send with any message, goes on after a send has raised, and may leave   *)
(* the with block between two sends while it keeps f.                      *)
(***************************************************************************)
ClientMsgs ==
    { Script[1],
      << <<K_id, IntV(2)>>, <<K_text, StrV(<<"a", "\n", "\"">>)>> >> }

\* the state main is in when line 40 has run
InitClient ==
    /\ raw = TcpPrefix \o <<"a", ":", "7">>
    /\ addr = parse_addr(raw)
    /\ dpc = "call"
    /\ k = 0
    /\ spc = "idle"
    /\ msg = NoMsg
    /\ wbuf = <<>>
    /\ c2s = <<>>
    /\ s2c = <<>>
    /\ srvSent = <<>>
    /\ other = IdleCaller
    /\ peerClosed = FALSE
    /\ broken = FALSE
    /\ line = <<>>
    /\ exc = "none"
    /\ log = <<>>
    /\ returned = <<>>
    /\ nflushed = 0
    /\ nread = 0
    /\ connects = 1
    /\ opens = 1
    /\ fdOpen = TRUE
    /\ fileOpen = TRUE
    /\ closeCalls = 0
    /\ releases = 0
    /\ status = "running"

\* send(f, m) is called, whatever happened before
ClientCall(m) ==
    /\ dpc \in {"call", "left"}
    /\ SendDone
    /\ k < MaxCalls
    /\ k' = k + 1
    /\ msg' = m
    /\ spc' = "write"
    /\ UNCHANGED <<dpc, status, other, wbuf, line, exc, log, returned, nflushed, nread>>
    /\ UNCHANGED <<parseVars, wireVars, sockVars>>

\* the with block of line 39 is left between two sends
ClientLeaveWith ==
    /\ dpc = "call"
    /\ SendDone
    /\ SockClose
    /\ dpc' = "left"
    /\ UNCHANGED <<k, status, other>>
    /\ UNCHANGED <<parseVars, sendVars, wireVars>>

NextClient ==
    \/ \E m \in ClientMsgs : ClientCall(m)
    \/ ClientLeaveWith
    \/ SendWrite
    \/ SendFlush
    \/ SendReadline
    \/ SendCheck
    \/ \E b \in ServerBytes : ServerSend(b)
    \/ ServerClose

SpecClient == InitClient /\ [][NextClient]_vars

(***************************************************************************)
(* parse_addr applied to every drawn string.                               *)
(***************************************************************************)
InitParse ==
    /\ \E p \in Prefixes, h \in Strs(HostChars, MaxHostLen), t \in Strs(PortChars, MaxPortLen) :
          raw = p \o h \o t
    /\ InitRest

ParseOnly ==
    /\ dpc = "parse"
    /\ addr' = parse_addr(raw)
    /\ dpc' = "parsed"
    /\ UNCHANGED <<raw, k, status, other>>
    /\ UNCHANGED <<sendVars, wireVars, sockVars>>

NextParse == ParseOnly

SpecParse == InitParse /\ [][NextParse]_vars

(***************************************************************************)
(* The client against a peer that answers each request it has received     *)
(* with one line holding a JSON value.                                     *)
(***************************************************************************)
ServerValues ==
    { IntV(1), IntV(0 - 20), BoolV(TRUE), StrV(<<"a", "\n", "\"">>), ObjV(<<>>),
      ObjV(Script[1]) }

\* the peer has read a request that it has not answered yet
RequestPending == Count(srvSent, "\n") < nflushed

ServerReply(v) ==
    /\ Connected
    /\ ~peerClosed
    /\ RequestPending
    /\ s2c' = s2c \o DumpsAny(v) \o <<"\n">>
    /\ srvSent' = srvSent \o DumpsAny(v) \o <<"\n">>
    /\ UNCHANGED <<c2s, peerClosed, broken>>
    /\ UNCHANGED <<parseVars, callerVars, sendVars, sockVars>>

NextEcho ==
    \/ \E m \in ClientMsgs : ClientCall(m)
    \/ SendWrite
    \/ SendFlush
    \/ SendReadline
    \/ SendCheck
    \/ \E v \in ServerValues : ServerReply(v)

SpecEcho == InitClient /\ [][NextEcho]_vars

(***************************************************************************)
(* The client against a peer that answers a request with any of a few      *)
(* lines, JSON or not, or closes.                                          *)
(***************************************************************************)
ServerLines ==
    { <<"1", "\n">>, <<"t", "r", "u", "e", "\n">>, <<"x", "\n">>, <<"\n">>,
      <<"1", " ", "1", "\n">>, NaNText \o <<"\n">>, <<"-">> \o InfinityText \o <<"\n">> }

ServerLine(l) ==
    /\ Connected
    /\ ~peerClosed
    /\ RequestPending
    /\ s2c' = s2c \o l
    /\ srvSent' = srvSent \o l
    /\ UNCHANGED <<c2s, peerClosed, broken>>
    /\ UNCHANGED <<parseVars, callerVars, sendVars, sockVars>>

NextLines ==
    \/ \E m \in ClientMsgs : ClientCall(m)
    \/ SendWrite
    \/ SendFlush
    \/ SendReadline
    \/ SendCheck
    \/ \E l \in ServerLines : ServerLine(l)
    \/ ServerClose

SpecLines == InitClient /\ [][NextLines]_vars

(***************************************************************************)
(* Two callers sharing f with nothing between them: the first runs send on *)
(* spc, msg, line as above, the second on the fields of other.  Each write,*)
(* flush and readline of f is one step (f's buffers are locked for the     *)
(* time of one call), and the steps of the two sends interleave freely.    *)
(* The peer answers every frame, in the order received, with the line of   *)
(* the id found in it.                                                     *)
(***************************************************************************)
OtherMsgs == { Script[3] }

\* the n-th line of s, terminator included
RECURSIVE NthLine(_, _)
NthLine(s, n) ==
    IF n <= 1 THEN SubSeq(s, 1, FirstIndex(s, "\n"))
    ELSE NthLine(DropFirst(s, FirstIndex(s, "\n")), n - 1)

OtherCall(m) ==
    /\ dpc = "call"
    /\ other.spc = "idle"
    /\ Len(other.log) < MaxCalls
    /\ other' = [other EXCEPT !.spc = "write", !.msg = m]
    /\ UNCHANGED <<dpc, k, status>>
    /\ UNCHANGED <<parseVars, sendVars, wireVars, sockVars>>

\* line 21-22 in the second caller
OtherWrite ==
    /\ other.spc = "write"
    /\ wbuf' = wbuf \o Payload(other.msg)
    /\ other' = [other EXCEPT !.spc = "flush"]
    /\ UNCHANGED <<spc, msg, line, exc, log, returned, nflushed, nread>>
    /\ UNCHANGED <<dpc, k, status>>
    /\ UNCHANGED <<parseVars, wireVars, sockVars>>

\* line 23 in the second caller: everything in the shared buffer goes out
OtherFlush ==
    /\ other.spc = "flush"
    /\ \E o \in FlushOutcomes :
          IF o = "sent"
          THEN /\ c2s' = c2s \o wbuf
               /\ wbuf' = <<>>
               /\ nflushed' = nflushed + 1
               /\ other' = [other EXCEPT !.spc = "readline"]
               /\ UNCHANGED broken
          ELSE /\ broken' = TRUE
               /\ other' = [other EXCEPT !.spc = "idle", !.log = Append(@, "OSError")]
               /\ UNCHANGED <<c2s, wbuf, nflushed>>
    /\ UNCHANGED <<spc, msg, line, exc, log, returned, nread, s2c, srvSent, peerClosed>>
    /\ UNCHANGED <<dpc, k, status>>
    /\ UNCHANGED <<parseVars, sockVars>>

\* line 24 in the second caller
OtherReadline ==
    /\ other.spc = "readline"
    /\ LineAvailable
    /\ other' = [other EXCEPT !.spc = "check", !.line = ReadlineResult]
    /\ s2c' = DropFirst(s2c, Len(ReadlineResult))
    /\ nread' = nread + 1
    /\ UNCHANGED <<spc, msg, wbuf, line, exc, log, returned, nflushed>>
    /\ UNCHANGED <<c2s, srvSent, peerClosed, broken>>
    /\ UNCHANGED <<dpc, k, status>>
    /\ UNCHANGED <<parseVars, sockVars>>

\* line 25-27 in the second caller
OtherCheck ==
    /\ other.spc = "check"
    /\ other' = [other EXCEPT
                    !.spc = "idle",
                    !.log = Append(@, SendOutcome(other.line)),
                    !.returned = IF SendOutcome(other.line) = "ok"
                                 THEN Append(@, json_loads(other.line).val)
                                 ELSE @]
    /\ UNCHANGED <<dpc, k, status>>
    /\ UNCHANGED <<parseVars, sendVars, wireVars, sockVars>>

\* the peer answers the oldest frame it has not answered with the id in it
ServerAnswer ==
    /\ Connected
    /\ ~peerClosed
    /\ Count(srvSent, "\n") < Count(c2s, "\n")
    /\ LET frame == NthLine(c2s, Count(srvSent, "\n") + 1)
           answer == DumpsInt(MsgId(json_loads(frame).val.o)) \o <<"\n">>
       IN  /\ s2c' = s2c \o answer
           /\ srvSent' = srvSent \o answer
    /\ UNCHANGED <<c2s, peerClosed, broken>>
    /\ UNCHANGED <<parseVars, callerVars, sendVars, sockVars>>

NextTwo ==
    \/ \E m \in ClientMsgs : ClientCall(m)
    \/ SendWrite
    \/ SendFlush
    \/ SendReadline
    \/ SendCheck
    \/ \E m \in OtherMsgs : OtherCall(m)
    \/ OtherWrite
    \/ OtherFlush
    \/ OtherReadline
    \/ OtherCheck
    \/ ServerAnswer

SpecTwo == InitClient /\ [][NextTwo]_vars

(***************************************************************************)
(* Properties.                                                             *)
(***************************************************************************)

\* C1: half-duplex ordering with a single caller.  No byte of a request is
\* written (into the buffer or to the transport) while an earlier request is
\* still unanswered, frames reach the transport one at a time, and at every
\* moment at most one request is written but not yet answered by a readline.
C1_HalfDuplex ==
    [][ /\ nflushed' - nread' \in {0, 1}
        /\ (wbuf' # wbuf \/ c2s' # c2s) => nread = nflushed
        /\ nflushed' # nflushed => nflushed' = nflushed + 1 ]_vars

\* the second request is on the wire, after the first response was consumed
C1_Witness == nflushed = 2 /\ nread = 1 /\ spc = "readline" /\ Len(returned) = 1

\* C2 (as claimed): once the caller has closed the connection (the with block
\* of sock is left), a later call writes no byte to the transport and does not
\* succeed.
C2_ClosedCallsFail ==
    [][ closeCalls > 0 =>
          /\ c2s' = c2s
          /\ Len(log') > Len(log) => log'[Len(log')] # "ok" ]_vars

\* C3 (as claimed): when readline returns at the end of the stream without a
\* complete line (nothing, or an unterminated prefix), send raises the
\* connection-closed error and returns no value.
C3_PeerClosedMidRead ==
    [][ (spc = "check" /\ spc' = "idle" /\ ~Contains(line, "\n")) =>
          /\ log'[Len(log')] = "RuntimeError"
          /\ returned' = returned ]_vars

\* C4 (as claimed): after a call on a client has failed, no later call on that
\* client succeeds.
C4_FailureSticky ==
    \A i \in 1..Len(log) : \A j \in (i + 1)..Len(log) : log[i] # "ok" => log[j] # "ok"

\* C5: once create_connection has returned a socket, main ends with the socket
\* closed: close() was called exactly once and the descriptor released exactly
\* once, whether all sends returned or one raised; close() is never called twice
\* and nothing is closed that was not opened.
C5_ClosedExactlyOnce ==
    /\ closeCalls <= opens
    /\ releases <= opens
    /\ opens <= 1
    /\ (dpc = "done" /\ opens = 1) => (closeCalls = 1 /\ releases = 1 /\ ~fdOpen /\ ~fileOpen)
    /\ (dpc = "done" /\ opens = 0) => (closeCalls = 0 /\ ~fdOpen)

\* main has ended by the exception of the third send, with the socket closed
C5_Witness ==
    /\ dpc = "done"
    /\ status = "exception"
    /\ k = 3
    /\ opens = 1
    /\ closeCalls = 1
    /\ releases = 1
    /\ ~fdOpen

\* C6: when parse_addr fails on the configured address, no connect is
\* attempted and no request byte is written; connects happen only after
\* parse_addr has returned an Address for that string.
C6_NoConnectAfterParseFailure ==
    /\ ~parse_addr(raw).ok => (connects = 0 /\ c2s = <<>> /\ wbuf = <<>> /\ k = 0)
    /\ connects > 0 => (addr.ok /\ addr = parse_addr(raw))
    /\ (dpc = "done" /\ ~addr.ok) => (status = "1" /\ connects = 0)

\* main has ended with 1 on an address parse_addr rejected
C6_Witness ==
    /\ dpc = "done"
    /\ status = "1"
    /\ ~addr.ok
    /\ addr.err = ErrUnsupported
    /\ connects = 0

\* the configured string after one optional leading "tcp:" is removed
C_Rest ==
    IF Len(raw) >= 4 /\ raw[1] = "t" /\ raw[2] = "c" /\ raw[3] = "p" /\ raw[4] = ":"
    THEN [i \in 1..(Len(raw) - 4) |-> raw[i + 4]]
    ELSE raw

\* i is the place of the last ":" of C_Rest
C_LastColonAt(i) ==
    /\ i \in 1..Len(C_Rest)
    /\ C_Rest[i] = ":"
    /\ \A j \in (i + 1)..Len(C_Rest) : C_Rest[j] # ":"

\* the text after place i is a non-empty string of decimal digits
C_DigitsAfter(i) ==
    /\ i < Len(C_Rest)
    /\ \A j \in (i + 1)..Len(C_Rest) : C_Rest[j] \in Digits

\* the number a digit string denotes, read from the left
RECURSIVE C_Number(_, _)
C_Number(acc, t) == IF t = <<>> THEN acc ELSE C_Number(10 * acc + DigitVal(Head(t)), Tail(t))

\* C7: a string that, after one optional "tcp:", does not start with "unix:"
\* and has decimal digits after its last ":" parses to the host before that
\* last ":" (possibly empty, possibly holding ":") and the port the digits denote.
C7_SplitAtLastColon ==
    (dpc = "parsed" /\ ~StartsWith(C_Rest, UnixPrefix)) =>
        \A i \in 1..Len(C_Rest) :
            (C_LastColonAt(i) /\ C_DigitsAfter(i)) =>
                /\ addr.ok
                /\ addr.host = SubSeq(C_Rest, 1, i - 1)
                /\ addr.port = C_Number(0, SubSeq(C_Rest, i + 1, Len(C_Rest)))

\* "tcp:::70" was cut at its last ":": host ":" (itself a colon), port 70
C7_Witness ==
    /\ dpc = "parsed"
    /\ raw = TcpPrefix \o <<":", ":", "7", "0">>
    /\ addr = Address(<<":">>, 70)

\* C8: every string that begins with "unix:" is rejected with the
\* unsupported-transport error, whatever follows; no Address is returned.
C8_UnixRejected ==
    (dpc = "parsed" /\ StartsWith(raw, UnixPrefix)) =>
        (~addr.ok /\ addr.err = ErrUnsupported)

\* "unix:a:7", which has a valid host:port shape after the prefix, was rejected
C8_Witness ==
    /\ dpc = "parsed"
    /\ raw = UnixPrefix \o <<"a", ":", "7">>
    /\ ~addr.ok
    /\ addr.err = ErrUnsupported

\* C9 (as claimed): a string not starting with "unix:" whose rest holds no ":"
\* or whose text after the last ":" is not a non-empty string of decimal digits
\* is rejected: parse raises (every error of parse_addr is a ValueError) and
\* returns no Address.
C9_MalformedRejected ==
    (dpc = "parsed" /\ ~StartsWith(raw, UnixPrefix)) =>
        /\ ~Contains(C_Rest, ":") => ~addr.ok
        /\ \A i \in 1..Len(C_Rest) : (C_LastColonAt(i) /\ ~C_DigitsAfter(i)) => ~addr.ok

\* C10 (as claimed): every Address parse returns has a port in 0..65535.
C10_PortInRange ==
    (dpc = "parsed" /\ addr.ok) => addr.port \in 0..65535


(***************************************************************************)
(* Framing and the steps of one send.                                      *)
(***************************************************************************)
\* C11: send buffers exactly json.dumps(msg) followed by one "\n", that text holds no
\* raw newline, exactly that frame is appended to what is on the wire, and when the peer
\* has answered with the line of a value, send returns a value equal to it.
C11_FramingRoundTrip ==
    [][ /\ (spc = "write" /\ spc' = "flush")
            => /\ wbuf' = wbuf \o json_dumps(msg) \o <<"\n">>
               /\ ~Contains(json_dumps(msg), "\n")
        /\ (c2s' # c2s) => c2s' = c2s \o json_dumps(msg) \o <<"\n">>
        /\ (spc = "check" /\ spc' = "idle")
            => \E v \in ServerValues :
                  /\ line = DumpsAny(v) \o <<"\n">>
                  /\ returned' = Append(returned, v)
                  /\ exc' = "none" ]_vars

\* a message with a newline in a string was framed, and a string with a newline and an
\* object came back
C11_Witness ==
    /\ nflushed = 2
    /\ Contains(msg[2][2].s, "\n")
    /\ Len(returned) = 2
    /\ returned[1] = StrV(<<"a", "\n", "\"">>)
    /\ returned[2] = ObjV(Script[1])

\* the frames of the first n scripted requests, one after the other
RECURSIVE C_Frames(_)
C_Frames(n) == IF n = 0 THEN <<>> ELSE C_Frames(n - 1) \o Payload(Script[n])

C_FramesUpTo == [n \in 0..NumCalls |-> C_Frames(n)]

\* the frame of the i-th scripted request
C_ScriptFrame == [i \in 1..NumCalls |-> json_dumps(Script[i]) \o <<"\n">>]

\* C12: every send writes one frame and never writes it again: what was written so far
\* (sent or still buffered) is one frame for each send begun, whether it returned or
\* raised, and no send flushes or reads twice.  A readline consumes one line only: what
\* it returns followed by what it leaves is what was there, it returns no byte past the
\* first "\n", and nothing else removes bytes of the stream.
C12_OneWriteOneLine ==
    [][ /\ c2s' \o wbuf' = C_FramesUpTo[k' - (IF spc' = "write" THEN 1 ELSE 0)]
        /\ nflushed' <= k'
        /\ nread' <= nflushed'
        /\ Len(log') = k' - (IF spc' = "idle" THEN 0 ELSE 1)
        /\ (nread' # nread)
            => /\ nread' = nread + 1
               /\ line' \o s2c' = s2c
               /\ Count(line', "\n") <= 1
               /\ Contains(s2c, "\n") => line'[Len(line')] = "\n"
        /\ (nread' = nread) => (s2c' = s2c \/ \E b \in ServerBytes : s2c' = Append(s2c, b))
      ]_vars

\* the first send has read its line "1\n" and left the bytes that had arrived after it
C12_Witness ==
    /\ k = 1
    /\ spc = "check"
    /\ nread = 1
    /\ line = <<"1", "\n">>
    /\ s2c # <<>>

\* what is on the wire after i scripted sends ends with the whole frame of the i-th
C_WireEndsWithFrame ==
    \A i \in 1..NumCalls : C_FramesUpTo[i] = C_FramesUpTo[i - 1] \o C_ScriptFrame[i]

\* C13: whenever send is waiting in readline, or has read, no byte is left in the write
\* buffer, and what was handed to the transport ends with the whole frame of its message,
\* "\n" included.
C13_FlushBeforeWait ==
    /\ C_WireEndsWithFrame
    /\ spc \in {"readline", "check"} =>
           /\ wbuf = <<>>
           /\ msg = Script[k]
           /\ c2s = C_FramesUpTo[k]

\* the second send is blocked in readline: nothing has arrived and the peer is open
C13_Witness ==
    /\ spc = "readline"
    /\ k = 2
    /\ nflushed = 2
    /\ s2c = <<>>
    /\ ~peerClosed
    /\ wbuf = <<>>

(***************************************************************************)
(* Two callers on one client.                                              *)
(***************************************************************************)
\* the line l answers the n-th frame the peer received
C_AnswersFrame(l, n) ==
    /\ json_loads(l).ok
    /\ json_loads(l).val = IntV(MsgId(json_loads(NthLine(c2s, n)).val.o))

\* C14: with two callers on one client, a reply goes to whoever reads next and not to
\* whoever asked: the n-th readline, by either caller, returns the answer to the n-th
\* frame on the wire.  The witness is the interleaving of the claim.
C14_DeliveryByPosition ==
    [][ /\ (spc = "readline" /\ spc' = "check") => C_AnswersFrame(line', nread')
        /\ (other.spc = "readline" /\ other'.spc = "check")
            => C_AnswersFrame(other'.line, nread') ]_vars

\* both frames were on the wire before any reply was read (no reply can be read before
\* its reader has flushed, and the reader of the first reply wrote the second frame);
\* the caller that asked with id 1 was returned 3 and the one that asked with id 3 was
\* returned 1
C14_Witness ==
    /\ k = 1
    /\ MsgId(msg) = 1
    /\ returned = <<IntV(3)>>
    /\ MsgId(other.msg) = 3
    /\ other.returned = <<IntV(1)>>
    /\ NthLine(c2s, 1) = Payload(msg)
    /\ NthLine(c2s, 2) = Payload(other.msg)
    /\ nread = 2

(***************************************************************************)
(* How send ends on what it read.                                          *)
(***************************************************************************)
\* the line holds, before its "\n", the JSON text of a value
C_ValidJsonLine(l) ==
    \E v \in ServerValues : l = DumpsAny(v) \o <<"\n">>

C_CompleteLine(l) == l # <<>> /\ l[Len(l)] = "\n"

\* C15 (as claimed): a complete line that is not valid JSON makes send raise the decoding
\* error and not the connection-closed error; a read of zero bytes at the end of the
\* stream makes it raise the connection-closed error and not the decoding error; in both
\* cases nothing is returned.
C15_ErrorClassification ==
    [][ (spc = "check" /\ spc' = "idle")
        => /\ (C_CompleteLine(line) /\ ~C_ValidJsonLine(line))
               => (exc' = "JSONDecodeError" /\ returned' = returned)
           /\ (line = <<>>)
               => (exc' = "RuntimeError" /\ returned' = returned) ]_vars

(***************************************************************************)
(* main: connecting, the requests it sends, and how it ends.               *)
(***************************************************************************)
\* C16: main connects at most once, and when that connect failed main has ended with the
\* OSError raised out of it, the socket was never open, no makefile and no send ran, and
\* no byte of a frame was written.
C16_ConnectFailureTerminal ==
    /\ connects <= 1
    /\ (connects = 1 /\ opens = 0)
        => /\ dpc = "done"
           /\ status = "exception"
           /\ exc = "OSError"
           /\ ~fdOpen
           /\ ~fileOpen
           /\ k = 0
           /\ spc = "idle"
           /\ wbuf = <<>>
           /\ c2s = <<>>

\* the address parsed, the connect failed and main has ended
C16_Witness ==
    /\ addr.ok
    /\ connects = 1
    /\ opens = 0
    /\ dpc = "done"
    /\ status = "exception"

\* the id a peer reads in the i-th scripted frame is i
C_FrameIdsCount ==
    \A i \in 1..NumCalls :
        LET frame == json_loads(Payload(Script[i]))
        IN  /\ frame.ok
            /\ frame.val.t = "obj"
            /\ frame.val.o[1][1] = K_id
            /\ frame.val.o[1][2] = IntV(i)

\* C17: what main has written on the connection is always the frames of its first
\* requests, in order and each once, and the i-th of them carries the id i: the ids on
\* the wire are 1, 2, ... strictly increasing, so no id is written twice.
C17_IdsIncrease ==
    /\ nflushed <= NumCalls
    /\ c2s = C_FramesUpTo[nflushed]
    /\ C_FrameIdsCount

\* all five requests are on the wire
C17_Witness ==
    /\ nflushed = 5
    /\ Count(c2s, "\n") = 5
    /\ MsgId(msg) = 5

\* the n-th line of s as readline cuts it: through the n-th "\n", or what is left of s
\* after the last "\n" when there is no n-th
RECURSIVE C_LineOf(_, _)
C_LineOf(s, n) ==
    LET e == IF Contains(s, "\n") THEN FirstIndex(s, "\n") ELSE Len(s)
    IN  IF n <= 1 THEN SubSeq(s, 1, e) ELSE C_LineOf(DropFirst(s, e), n - 1)

C20_DriverTerminates ==
    <>(dpc = "done" /\ spc = "idle" /\ ~fdOpen)

\* main has ended at the first failed send, the peer having closed without a reply
C20_Witness ==
    /\ dpc = "done"
    /\ status = "exception"
    /\ exc = "RuntimeError"
    /\ k = 1
    /\ peerClosed
    /\ closeCalls = 1
    /\ ~fdOpen

=============================================================================
